---------------------------- MODULE Spec2Model ----------------------------
(***************************************************************************)
(* A model of the Java documentation extractor: lex_contents (the lexer),  *)
(* construct_ast (the declaration builder) with its statement handlers     *)
(* get_object, get_method, get_var, get_enum_fields, the doc-comment       *)
(* parser get_doc and the parameter reconciler match_params.               *)
(*                                                                         *)
(* A source text is a sequence of items: each item is one delimiter        *)
(* character of the lexer or a maximal run of other characters (a word).   *)
(* A program string is the sequence of the pieces between its single       *)
(* blanks, so that split(" ") and join(" ") are computed, not assumed:     *)
(* "int MAX " is <<"int", "MAX", "">> and the empty string is << >>.       *)
(***************************************************************************)
EXTENDS Integers, Sequences, FiniteSets, TLC

VARIABLES
    file,          \* parse_file: what the path leads to
    content,       \* parse_file: contents, the text read from the file, as items
    pc,            \* "open", "read", "lex", "build", "done", "panic" or "failed"
    pos,           \* lex_contents: index of the next item of content
    tokens,        \* lex_contents: tokens
    curr_token,    \* lex_contents: curr_token
    block_depth,   \* lex_contents: block_depth
    line_number,   \* lex_contents: line_number
    curr_line,     \* lex_contents: curr_line
    tpos,          \* construct_ast: index of the next token
    annotation,    \* construct_ast: annotation
    ignore,        \* construct_ast: ignore
    object,        \* construct_ast: object
    in_object,     \* construct_ast: in_object
    parse_state,   \* construct_ast: parse_state
    doc,           \* construct_ast: doc
    comment,       \* construct_ast: comment
    jdoc,          \* construct_ast: jdoc
    symbols,       \* construct_ast: symbols
    doc_tokens,    \* construct_ast: doc_tokens
    method,        \* construct_ast: method (the local record)
    gram_parts,    \* construct_ast: gram_parts
    comment_buf,   \* construct_ast: comment_buf
    line_num,      \* construct_ast: line_num
    signature,     \* construct_ast: signature
    result,        \* the ObjectType returned, NoResult before the return
    last_call,     \* history: the latest statement handler call
    last_end,      \* history: source index of the latest terminator handled
    app,           \* the ApplicationDoc
    app_call       \* history: the latest add_package_class call and their count

lexvars == <<pos, tokens, curr_token, block_depth, line_number, curr_line>>
flagvars == <<annotation, ignore, in_object, parse_state, doc, comment>>
bufvars == <<jdoc, symbols, doc_tokens, method, gram_parts, comment_buf>>
linevars == <<line_num, signature>>
histvars == <<last_call, last_end>>
appvars == <<app, app_call>>
vars == <<file, content, pc, lexvars, tpos, flagvars, bufvars, linevars, object,
          result, histvars, appvars>>

-----------------------------------------------------------------------------
(* Bounds of the checked inputs.                                           *)

MaxFree == 3
MaxParams == 2
MaxTags == 2
MaxEnum == 3
MaxCalls == 3

-----------------------------------------------------------------------------
(* Characters and words.                                                   *)

Blank == {" ", "\t", "\r"}
Delims == Blank \cup {"\n", ",", ";", "(", ")", "{", "}"}
IsWord(it) == it \notin Delims

\* str::trim strips the white space at both ends of the line.
White == Blank \cup {"\n"}

\* The words that hold the two characters "//" without being "//".
SlashWords == {"http://x", "//TODO"}
\* The words that hold the character "@".
AtWords == {"@Ann", "@Autowired", "@return", "@param", "@author", "@code",
            "@deprecated", "@docRoot", "@exception", "@inheritDoc", "@link",
            "@linkplain", "@literal", "@see", "@throws", "@since",
            "@serialData", "@serialField", "@value", "@version"}
\* The words that hold the character "=", and what stands before it.
EqWords == {"=", "MAX=", "=10"}
BeforeEq(w) == IF w = "MAX=" THEN "MAX" ELSE ""

get_keywords ==
    {"class", "interface", "enum", "package", "throws", "extends",
     "implements", "import", "public", "protected", "private", "static",
     "final", "abstract", "synchronized", "volatile", "native"}
get_jdoc_keywords ==
    {"@return", "@param", "@author", "@code", "@deprecated", "@docRoot",
     "@exception", "@inheritDoc", "@link", "@linkplain", "@literal", "@see",
     "@throws", "@since", "@serialData", "@serialField", "@value",
     "@version"}
get_spring_keywords == {"@Autowired"}

is_keyword(w, k) == w \in k

-----------------------------------------------------------------------------
(* Strings.                                                                *)

Front(s) == SubSeq(s, 1, Len(s) - 1)
Last(s) == s[Len(s)]

\* String::from(word)
S(w) == IF w = "" THEN << >> ELSE <<w>>
\* [..].join(" ")
JoinSp(ws) == IF ws = <<"">> THEN << >> ELSE ws
\* str.split(" ").collect()
Split(s) == IF s = << >> THEN <<"">> ELSE s
\* buf.push_str(format!("{} ", w)) on a buffer that is empty or ends in a blank
PushWord(buf, w) == IF buf = << >> THEN <<w, "">> ELSE Front(buf) \o <<w, "">>

RECURSIVE Flat(_)
\* The sequences of ss, one after the other.
Flat(ss) == IF ss = << >> THEN << >> ELSE Head(ss) \o Flat(Tail(ss))

RECURSIVE Concat(_)
\* [..].join("")
Concat(ws) == IF ws = << >> THEN "" ELSE Head(ws) \o Concat(Tail(ws))

RECURSIVE TrimStart(_)
TrimStart(l) ==
    IF l # << >> /\ Head(l) \in White THEN TrimStart(Tail(l)) ELSE l
RECURSIVE TrimEnd(_)
TrimEnd(l) ==
    IF l # << >> /\ Last(l) \in White THEN TrimEnd(Front(l)) ELSE l
Trim(l) == TrimEnd(TrimStart(l))

Digit == <<"0", "1", "2", "3", "4", "5", "6", "7", "8", "9">>
RECURSIVE to_string(_)
\* usize::to_string, i32::to_string of a number that is not negative
to_string(n) ==
    IF n < 10 THEN Digit[n + 1]
    ELSE to_string(n \div 10) \o Digit[(n % 10) + 1]

-----------------------------------------------------------------------------
(* lex_contents                                                            *)

Tok(k, v, at) == [k |-> k, v |-> v, at |-> at]

\* push_token: the tokens a flush of word w (read at index at) appends
push_token(w, at) ==
    IF w = "" THEN << >>
    ELSE IF is_keyword(w, get_keywords) THEN <<Tok("Keyword", w, at)>>
    ELSE IF is_keyword(w, get_jdoc_keywords) THEN <<Tok("Keyword", w, at)>>
    ELSE IF is_keyword(w, get_spring_keywords) THEN <<Tok("Keyword", w, at)>>
    ELSE <<Tok("Symbol", w, at)>>

\* The depth below which the lexer turns characters into tokens.
LexDepth == 2

\* A slip of the comparison: the first level of a body is still lexed.
LexingOneDeeper(depth) == depth <= LexDepth

\* if block_depth < 2: the characters at this depth are turned into tokens.
Lexing(depth) == depth < LexDepth

\* A slip: the closing brace emits a terminator like the opening one.
BraceCloseEmits(at) == <<Tok("ExpressionEnd", "}", at)>>

\* The tokens a terminator character appends after the flushed word.
BraceOpenToken(at) == <<Tok("ExpressionEnd", "{", at)>>
BraceCloseToken(at) == << >>

\* One turn of the loop of lex_contents on Some(ch).
LexChar ==
    /\ pc = "lex"
    /\ pos <= Len(content)
    /\ LET ch == content[pos]
           open == Lexing(block_depth)
           flush == IF open THEN push_token(curr_token, pos - 1) ELSE << >>
           emit(t) == IF open THEN flush \o t ELSE << >>
       IN  /\ tokens' =
                 CASE ch \in Blank -> tokens \o flush
                   [] ch = "\n" ->
                        tokens \o flush
                          \o <<Tok("LineNumber", to_string(line_number + 1), pos),
                               Tok("Sign", Trim(curr_line), pos)>>
                   [] ch = "," -> tokens \o emit(<<Tok("Join", ",", pos)>>)
                   [] ch = ";" ->
                        tokens \o emit(<<Tok("ExpressionEnd", ";", pos)>>)
                   [] ch = "(" -> tokens \o emit(<<Tok("ParamStart", "(", pos)>>)
                   [] ch = ")" -> tokens \o emit(<<Tok("ParamEnd", ")", pos)>>)
                   [] ch = "{" -> tokens \o emit(BraceOpenToken(pos))
                   [] ch = "}" -> tokens \o emit(BraceCloseToken(pos))
                   [] OTHER -> tokens
           /\ curr_token' =
                 IF ch \in Delims THEN ""
                 ELSE IF open THEN curr_token \o ch ELSE curr_token
           /\ block_depth' =
                 CASE ch = "{" -> block_depth + 1
                   [] ch = "}" -> block_depth - 1
                   [] OTHER -> block_depth
           /\ line_number' = IF ch = "\n" THEN line_number + 1 ELSE line_number
           /\ curr_line' = IF ch = "\n" THEN <<ch>> ELSE Append(curr_line, ch)
    /\ pos' = pos + 1
    /\ UNCHANGED <<appvars, file, content, pc, tpos, flagvars, bufvars, linevars, object,
                   result, histvars>>

\* None => break, and construct_ast starts on the tokens.
LexEnd ==
    /\ pc = "lex"
    /\ pos > Len(content)
    /\ pc' = "build"
    /\ UNCHANGED <<appvars, file, content, lexvars, tpos, flagvars, bufvars, linevars,
                   object, result, histvars>>

-----------------------------------------------------------------------------
(* The records of the model module.                                        *)

NewDoc ==
    [params |-> << >>, description |-> << >>, return_desc |-> << >>,
     author |-> << >>, version |-> << >>, exceptions |-> << >>,
     deprecated |-> << >>, see |-> << >>]

NewMethod ==
    [name |-> "", return_type |-> << >>, parameters |-> << >>,
     privacy |-> "", modifiers |-> << >>, exceptions |-> << >>,
     description |-> << >>, line_num |-> "", signature |-> << >>]

NewMember ==
    [var_type |-> << >>, name |-> << >>, access |-> "", modifiers |-> << >>,
     line_number |-> "", signature |-> << >>]

NewObject ==
    [state |-> "Unset", name |-> "", package_name |-> "", parent |-> "",
     interfaces |-> << >>, dependencies |-> << >>, access |-> "",
     modifiers |-> << >>, license |-> << >>, variables |-> << >>,
     methods |-> << >>, fields |-> << >>, exceptions |-> << >>,
     signature |-> << >>, author |-> << >>, version |-> << >>,
     description |-> << >>]

Param(t, n, d) == [var_type |-> t, name |-> n, desc |-> d]

-----------------------------------------------------------------------------
(* get_doc                                                                 *)

\* The state a tag switches the doc-comment parser to.
JdocStateOf(key, old) ==
    CASE key = "@return" -> "JdocReturn"
      [] key = "@param" -> "Param"
      [] key = "@author" -> "Author"
      [] key = "@code" -> "Code"
      [] key = "@deprecated" -> "Deprecated"
      [] key = "@docRoot" -> "DocRoot"
      [] key = "@exception" -> "Exception"
      [] key = "@inheritDoc" -> "InheritDoc"
      [] key = "@link" -> "Link"
      [] key = "@linkplain" -> "Linkplain"
      [] key = "@literal" -> "Literal"
      [] key = "@see" -> "See"
      [] key = "@throws" -> "Exception"
      [] key = "@since" -> "Since"
      [] key = "@serialData" -> "SerialData"
      [] key = "@serialField" -> "SerialField"
      [] key = "@value" -> "Value"
      [] key = "@version" -> "Version"
      [] OTHER -> old

\* The word buffer goes to the field of the section that ends.
DocFlush(d) ==
    LET new_desc == d.word_buf
        word_parts == Split(new_desc)
    IN  CASE d.state = "JdocReturn" -> [d EXCEPT !.return_str = new_desc]
          [] d.state = "Param" ->
               IF Len(word_parts) > 1
               THEN [d EXCEPT !.parameters =
                        Append(@, Param(<< >>, word_parts[1],
                                        JoinSp(Tail(word_parts))))]
               ELSE [d EXCEPT !.parameters =
                        Append(@, Param(<< >>, word_parts[1], << >>))]
          [] d.state = "Author" -> [d EXCEPT !.author = new_desc]
          [] d.state = "Deprecated" -> [d EXCEPT !.deprecated = new_desc]
          [] d.state = "Since" -> [d EXCEPT !.version = new_desc]
          [] d.state = "Link" -> [d EXCEPT !.link = new_desc]
          [] d.state = "See" -> [d EXCEPT !.link = new_desc]
          [] d.state = "Exception" ->
               IF Len(d.exceptions) > 0
               THEN [d EXCEPT !.exceptions =
                        Append(@, [exception_type |-> word_parts[1],
                                   desc |-> S(Concat(Tail(word_parts)))])]
               ELSE d
          [] d.state = "Version" -> [d EXCEPT !.version = new_desc]
          [] d.state = "Desc" -> [d EXCEPT !.desc = new_desc]
          [] OTHER -> d

\* What the parser does at the end of the token list.
DocAtEnd(d) == d

\* One turn of the loop of get_doc, on token i.
DocStep(d, t, i) ==
    IF t.k = "Keyword"
    THEN LET f == IF i # 1 THEN [DocFlush(d) EXCEPT !.word_buf = << >>] ELSE d
         IN  [f EXCEPT !.state = JdocStateOf(t.v, f.state)]
    ELSE IF t.v # "*" THEN [d EXCEPT !.word_buf = PushWord(@, t.v)] ELSE d

RECURSIVE DocLoop(_, _, _)
DocLoop(d, toks, i) ==
    IF i > Len(toks) THEN d ELSE DocLoop(DocStep(d, toks[i], i), toks, i + 1)

\* The locals of get_doc before its loop.
DocStart ==
    [return_str |-> << >>, desc |-> << >>, parameters |-> << >>,
     author |-> << >>, version |-> << >>, link |-> << >>,
     deprecated |-> << >>, exceptions |-> << >>, state |-> "Desc",
     word_buf |-> << >>]

get_doc(toks) ==
    LET d == DocAtEnd(DocLoop(DocStart, toks, 1))
    IN  [params |-> d.parameters, description |-> d.desc,
         return_desc |-> d.return_str, author |-> d.author,
         version |-> d.version, exceptions |-> d.exceptions,
         deprecated |-> d.deprecated, see |-> d.link]

-----------------------------------------------------------------------------
(* match_params                                                            *)

\* A slip of the index: the description of the first documented parameter.
MatchOneFirst(param, jparams, i) ==
    Flat([j \in 1..Len(jparams) |->
             IF param.name = jparams[j].name
             THEN <<Param(param.var_type, param.name, jparams[1].desc)>>
             ELSE << >>])

RECURSIVE MatchOne(_, _, _)
\* The entries pushed for one declared parameter by the inner loop.
MatchOne(param, jparams, i) ==
    IF i > Len(jparams) THEN << >>
    ELSE (IF param.name = jparams[i].name
          THEN <<Param(param.var_type, param.name, jparams[i].desc)>>
          ELSE << >>) \o MatchOne(param, jparams, i + 1)

RECURSIVE MatchLoop(_, _)
MatchLoop(params, jparams) ==
    IF params = << >> THEN << >>
    ELSE LET param == Head(params)
             hit == MatchOne(param, jparams, 1)
         IN  (IF hit # << >> THEN hit
              ELSE <<Param(param.var_type, param.name, << >>)>>)
             \o MatchLoop(Tail(params), jparams)

match_params(m, jparams) == MatchLoop(m.parameters, jparams)

-----------------------------------------------------------------------------
(* get_method                                                              *)

\* One turn of the loop of get_method; w holds method, param_type, parse_state.
MethodStep(w, p, java_doc) ==
    CASE p.k = "Variable" ->
           LET a == CASE w.ps = "Exception" ->
                           IF Len(java_doc.exceptions) > 0
                           THEN [w EXCEPT !.m.exceptions =
                                   Append(@, [desc |-> java_doc.exceptions[1].desc,
                                              exception_type |-> p.v])]
                           ELSE w
                      [] w.ps = "MethodName" -> [w EXCEPT !.m.name = p.v]
                      [] w.ps = "ParamName" ->
                           [w EXCEPT !.m.parameters =
                                       Append(@, Param(w.param_type, p.v, << >>)),
                                     !.param_type = << >>]
                      [] OTHER -> w
           IN  IF a.m.name = "" THEN [a EXCEPT !.m.return_type = S(p.v)] ELSE a
      [] p.k = "Type" ->
           IF w.m.return_type = << >>
           THEN [w EXCEPT !.m.return_type = p.v, !.ps = "MethodName"]
           ELSE [w EXCEPT !.param_type = p.v, !.ps = "ParamName"]
      [] p.k = "Access" -> [w EXCEPT !.m.privacy = p.v]
      [] p.k = "Modifier" -> [w EXCEPT !.m.modifiers = Append(@, p.v)]
      [] p.k = "Exception" -> [w EXCEPT !.ps = "Exception"]
      [] OTHER -> w

RECURSIVE MethodLoop(_, _, _)
MethodLoop(w, parts, java_doc) ==
    IF parts = << >> THEN w
    ELSE MethodLoop(MethodStep(w, Head(parts), java_doc), Tail(parts), java_doc)

\* The method as the loop leaves it, before the documentation is merged.
MethodWalk(parts, java_doc) ==
    MethodLoop([m |-> NewMethod, param_type |-> << >>, ps |-> "Other"],
               parts, java_doc).m

get_method(parts, java_doc, line, sign) ==
    LET m1 == [MethodWalk(parts, java_doc) EXCEPT
                  !.line_num = line, !.signature = sign]
        m2 == IF java_doc.return_desc # << >>
              THEN [m1 EXCEPT !.return_type = java_doc.return_desc] ELSE m1
        m3 == IF java_doc.description # << >>
              THEN [m2 EXCEPT !.description = java_doc.description] ELSE m2
    IN  [m3 EXCEPT !.parameters = match_params(m3, java_doc.params)]

-----------------------------------------------------------------------------
(* get_var                                                                 *)

HasEq(key) == \E i \in 1..Len(key) : key[i] \in EqWords
\* key.split("=").collect()[0]
SplitEqFirst(key) ==
    LET i == CHOOSE j \in 1..Len(key) :
                 key[j] \in EqWords /\ \A h \in 1..(j - 1) : key[h] \notin EqWords
    IN  JoinSp(SubSeq(key, 1, i - 1) \o <<BeforeEq(key[i])>>)

\* One turn of the loop of get_var; w.ret is set by a return inside the loop.
VarStep(w, p) ==
    CASE p.k = "Variable" ->
           IF p.v = "=" THEN [w EXCEPT !.ret = TRUE]
           ELSE IF w.member_name
           THEN [w EXCEPT !.member.name = S(p.v), !.ret = TRUE]
           ELSE [w EXCEPT !.member.var_type = S(p.v), !.member_name = TRUE]
      [] p.k = "Type" ->
           IF HasEq(p.v)
           THEN [w EXCEPT !.member.name = SplitEqFirst(p.v), !.ret = TRUE]
           ELSE [w EXCEPT !.member.var_type = p.v, !.member_name = TRUE]
      [] p.k = "Access" -> [w EXCEPT !.member.access = p.v]
      [] p.k = "Modifier" -> [w EXCEPT !.member.modifiers = Append(@, p.v)]
      [] OTHER -> w

RECURSIVE VarLoop(_, _)
VarLoop(w, parts) ==
    IF parts = << >> \/ w.ret THEN w
    ELSE VarLoop(VarStep(w, Head(parts)), Tail(parts))

get_var(parts, line, sign) ==
    LET w == VarLoop([member |-> NewMember, member_name |-> FALSE,
                      ret |-> FALSE], parts)
    IN  IF w.ret THEN w.member
        ELSE [w.member EXCEPT !.line_number = line, !.signature = sign]

-----------------------------------------------------------------------------
(* get_enum_fields                                                         *)

RECURSIVE EnumLoop(_, _)
\* i is the index of the part as the code counts it, from 0
EnumLoop(parts, i) ==
    IF i >= Len(parts) THEN << >>
    ELSE (IF parts[i + 1].k = "Variable"
          THEN <<[name |-> parts[i + 1].v, value |-> to_string(i)]>>
          ELSE << >>) \o EnumLoop(parts, i + 1)

get_enum_fields(parts) == EnumLoop(parts, 0)

-----------------------------------------------------------------------------
(* get_object                                                              *)

\* One turn of the loop of get_object; w holds the object and parse_state.
ObjectStep(w, p) ==
    CASE p.k = "Variable" ->
           CASE w.ps = "Implement" ->
                  [w EXCEPT !.ob.interfaces = Append(@, p.v)]
             [] w.ps = "Exception" ->
                  [w EXCEPT !.ob.exceptions =
                      Append(@, [desc |-> << >>, exception_type |-> p.v])]
             [] w.ps = "ClassName" -> [w EXCEPT !.ob.name = p.v]
             [] w.ps = "Parent" -> [w EXCEPT !.ob.parent = p.v]
             [] OTHER -> w
      [] p.k = "Object" -> [w EXCEPT !.ps = "ClassName"]
      [] p.k = "Access" -> [w EXCEPT !.ob.access = p.v]
      [] p.k = "Modifier" -> [w EXCEPT !.ob.modifiers = Append(@, p.v)]
      [] p.k = "Exception" -> [w EXCEPT !.ps = "Exception"]
      [] p.k = "Implement" -> [w EXCEPT !.ps = "Implement"]
      [] p.k = "Parent" -> [w EXCEPT !.ps = "Parent"]
      [] OTHER -> w

RECURSIVE ObjectLoop(_, _)
ObjectLoop(w, parts) ==
    IF parts = << >> THEN w
    ELSE ObjectLoop(ObjectStep(w, Head(parts)), Tail(parts))

get_object(parts, java_doc, sign, ob) ==
    [ObjectLoop([ob |-> ob, ps |-> "Other"], parts).ob EXCEPT
        !.signature = sign,
        !.description = java_doc.description,
        !.author = java_doc.author,
        !.version = java_doc.version]

-----------------------------------------------------------------------------
(* construct_ast                                                           *)

Part(k, v, at) == [k |-> k, v |-> v, at |-> at]
Sym(w, at) == [w |-> w, at |-> at]
Words(syms) == [i \in 1..Len(syms) |-> syms[i].w]

\* Type(all words but the last, joined) and Variable(the last word)
TypeAndVariable(syms) ==
    <<Part("Type", JoinSp(Words(Front(syms))), syms[1].at),
      Part("Variable", Last(syms).w, Last(syms).at)>>

\* The grammar parts of a pending word group: one word is a Variable.
FlushSymbols(syms) ==
    IF Len(syms) = 1 THEN <<Part("Variable", syms[1].w, syms[1].at)>>
    ELSE IF Len(syms) > 1 THEN TypeAndVariable(syms)
    ELSE << >>

\* The grammar parts the Join arm makes of the pending word group.
JoinSymbols(syms) == IF Len(syms) > 1 THEN TypeAndVariable(syms) ELSE << >>

access_mod_match(key) == key \in {"public", "protected", "private"}
modifier_match(key) ==
    key \in {"static", "final", "abstract", "synchronized", "volatile"}

ObjectStateOf(key) ==
    CASE key = "class" -> "Class"
      [] key = "interface" -> "Interface"
      [] key = "enum" -> "Enumeration"
ParseStateOf(key) ==
    CASE key = "class" -> "Class"
      [] key = "interface" -> "Interface"
      [] key = "enum" -> "Enum"

NoCall == [fn |-> "none"]
NoResult == [kind |-> "none"]

Building == pc = "build" /\ tpos <= Len(tokens)
token == tokens[tpos]

\* if ignore { match token { ParamEnd => ignore = false, _ => continue } }
BuildIgnored ==
    /\ Building
    /\ ignore
    /\ ignore' = (token.k # "ParamEnd")
    /\ tpos' = tpos + 1
    /\ UNCHANGED <<appvars, file, content, pc, lexvars, annotation, in_object, parse_state,
                   doc, comment, bufvars, linevars, object, result, histvars>>

\* Token::Keyword(key)
BuildKeyword ==
    /\ Building
    /\ ~ignore
    /\ token.k = "Keyword"
    /\ LET key == token.v
           parts == gram_parts \o FlushSymbols(symbols)
           is_type == key \in {"class", "interface", "enum"}
           outside == ~doc /\ ~comment
       IN  /\ object' =
                 IF is_type /\ outside
                 THEN [object EXCEPT !.state = ObjectStateOf(key)]
                 ELSE IF key = "package" /\ comment_buf # << >>
                 THEN [object EXCEPT !.license = comment_buf]
                 ELSE object
           /\ parse_state' =
                 IF is_type /\ outside THEN ParseStateOf(key) ELSE parse_state
           /\ in_object' = (in_object \/ is_type)
           /\ gram_parts' =
                 CASE is_type ->
                        IF outside
                        THEN Append(parts, Part("Object", key, token.at))
                        ELSE parts
                   [] key = "package" ->
                        Append(parts, Part("Package", "", token.at))
                   [] key = "throws" ->
                        Append(parts, Part("Exception", "", token.at))
                   [] key = "extends" ->
                        Append(parts, Part("Parent", "", token.at))
                   [] key = "implements" ->
                        Append(parts, Part("Implement", "", token.at))
                   [] key = "import" ->
                        Append(parts, Part("Import", "", token.at))
                   [] access_mod_match(key) ->
                        Append(parts, Part("Access", key, token.at))
                   [] modifier_match(key) ->
                        Append(parts, Part("Modifier", key, token.at))
                   [] OTHER -> parts
           /\ doc_tokens' =
                 IF \/ key \in {"class", "interface", "enum", "package",
                                "throws", "extends", "implements", "import"}
                    \/ access_mod_match(key)
                    \/ modifier_match(key)
                 THEN doc_tokens
                 ELSE IF is_keyword(key, get_jdoc_keywords)
                 THEN Append(doc_tokens, [k |-> "Keyword", v |-> key])
                 ELSE IF doc
                 THEN Append(doc_tokens, [k |-> "Symbol", v |-> key])
                 ELSE doc_tokens
           /\ comment_buf' =
                 IF comment THEN comment_buf \o <<key, " ">> ELSE comment_buf
    /\ symbols' = << >>
    /\ annotation' = FALSE
    /\ tpos' = tpos + 1
    /\ UNCHANGED <<appvars, file, content, pc, lexvars, ignore, doc, comment, jdoc, method,
                   linevars, result, histvars>>

\* A slip: the opening of a doc comment also ends a comment.
CommentFlagReset(word, flag) ==
    CASE word \in {"*/", "/**"} -> FALSE
      [] word \in {"//", "/*"} -> TRUE
      [] word \in SlashWords -> TRUE
      [] OTHER -> flag

\* The comment flag after the Symbol arm has matched the word.
CommentFlag(word, flag) ==
    CASE word = "*/" -> FALSE
      [] word \in {"//", "/*"} -> TRUE
      [] word \in SlashWords -> TRUE
      [] OTHER -> flag

\* Token::Symbol(word)
BuildSymbol ==
    /\ Building
    /\ ~ignore
    /\ token.k = "Symbol"
    /\ LET word == token.v
           plain == word \notin {"/**", "*/", "//", "/*"}
           slashes == plain /\ word \in SlashWords
           in_doc == plain /\ ~slashes /\ doc
           marker == plain /\ ~slashes /\ ~doc /\ word \in AtWords
           pushed == plain /\ ~slashes /\ ~doc /\ ~marker /\ ~comment
       IN  /\ doc' = CASE word = "/**" -> TRUE
                       [] word = "*/" -> FALSE
                       [] OTHER -> doc
           /\ comment' = CommentFlag(word, comment)
           /\ jdoc' = IF word = "*/" /\ doc THEN get_doc(doc_tokens) ELSE jdoc
           /\ parse_state' = IF word = "*/" /\ doc THEN "Other" ELSE parse_state
           /\ gram_parts' = IF word = "*/" /\ doc THEN << >> ELSE gram_parts
           /\ doc_tokens' =
                 IF word = "*/" /\ doc THEN << >>
                 ELSE IF in_doc
                 THEN Append(doc_tokens,
                             [k |-> IF is_keyword(word, get_jdoc_keywords)
                                    THEN "Keyword" ELSE "Symbol",
                              v |-> word])
                 ELSE doc_tokens
           /\ symbols' =
                 IF pushed THEN Append(symbols, Sym(word, token.at)) ELSE symbols
           /\ annotation' = marker
           /\ comment_buf' =
                 LET buf == IF word = "/*" THEN << >> ELSE comment_buf
                 IN  IF ~marker /\ comment' /\ word \notin {"*", "/*"}
                     THEN buf \o <<word, " ">> ELSE buf
    /\ tpos' = tpos + 1
    /\ UNCHANGED <<appvars, file, content, pc, lexvars, ignore, in_object, method, linevars,
                   object, result, histvars>>

\* Token::Join
BuildJoin ==
    /\ Building
    /\ ~ignore
    /\ token.k = "Join"
    /\ gram_parts' = gram_parts \o JoinSymbols(symbols)
    /\ comment_buf' = IF comment THEN Append(comment_buf, ",") ELSE comment_buf
    /\ symbols' = << >>
    /\ tpos' = tpos + 1
    /\ UNCHANGED <<appvars, file, content, pc, lexvars, flagvars, jdoc, doc_tokens, method,
                   linevars, object, result, histvars>>

\* Token::ParamStart
BuildParamStart ==
    /\ Building
    /\ ~ignore
    /\ token.k = "ParamStart"
    /\ ignore' = annotation
    /\ annotation' = FALSE
    /\ gram_parts' =
          IF annotation THEN gram_parts ELSE gram_parts \o FlushSymbols(symbols)
    /\ comment_buf' = IF comment THEN Append(comment_buf, "(") ELSE comment_buf
    /\ symbols' = << >>
    /\ tpos' = tpos + 1
    /\ UNCHANGED <<appvars, file, content, pc, lexvars, in_object, parse_state, doc, comment,
                   jdoc, doc_tokens, method, linevars, object, result,
                   histvars>>

\* Token::ParamEnd
BuildParamEnd ==
    /\ Building
    /\ ~ignore
    /\ token.k = "ParamEnd"
    /\ method' =
          IF Len(symbols) = 1 THEN [method EXCEPT !.name = symbols[1].w]
          ELSE method
    /\ gram_parts' = gram_parts \o JoinSymbols(symbols)
    /\ comment_buf' = IF comment THEN Append(comment_buf, ")") ELSE comment_buf
    /\ symbols' = << >>
    /\ tpos' = tpos + 1
    /\ UNCHANGED <<appvars, file, content, pc, lexvars, flagvars, jdoc, doc_tokens, linevars,
                   object, result, histvars>>

\* A slip: the Import and Package arms of the match confused.
HandlerSwapped(end, temp_gram) ==
    CASE end = ";" /\ ~in_object ->
           IF Len(temp_gram) > 1
           THEN CASE temp_gram[1].k = "Import" -> "package"
                  [] temp_gram[1].k = "Package" -> "import"
                  [] OTHER -> "get_var"
           ELSE "none"
      [] end = ";" /\ in_object ->
           CASE object.state = "Class" -> "get_var"
             [] object.state = "Enumeration" -> "get_enum_fields"
             [] OTHER -> "get_method"
      [] end = "{" ->
           IF parse_state \in {"Interface", "Class", "Enum"}
           THEN "get_object" ELSE "get_method"
      [] OTHER -> IF comment \/ doc THEN "none" ELSE "panic"

\* The handler an ExpressionEnd dispatches to, "none" when it calls none.
HandlerOf(end, temp_gram) ==
    CASE end = ";" /\ ~in_object ->
           IF Len(temp_gram) > 1
           THEN CASE temp_gram[1].k = "Import" -> "import"
                  [] temp_gram[1].k = "Package" -> "package"
                  [] OTHER -> "get_var"
           ELSE "none"
      [] end = ";" /\ in_object ->
           CASE object.state = "Class" -> "get_var"
             [] object.state = "Enumeration" -> "get_enum_fields"
             [] OTHER -> "get_method"
      [] end = "{" ->
           IF parse_state \in {"Interface", "Class", "Enum"}
           THEN "get_object" ELSE "get_method"
      [] OTHER -> IF comment \/ doc THEN "none" ELSE "panic"

\* The object after the handler fn has run on temp_gram.
Dispatch(fn, temp_gram) ==
    CASE fn = "import" ->
           IF temp_gram[2].k = "Variable"
           THEN [object EXCEPT !.dependencies = Append(@, temp_gram[2].v)]
           ELSE object
      [] fn = "package" ->
           IF temp_gram[2].k = "Variable"
           THEN [object EXCEPT !.package_name = temp_gram[2].v]
           ELSE object
      [] fn = "get_var" ->
           [object EXCEPT !.variables =
               Append(@, get_var(temp_gram, line_num, signature))]
      [] fn = "get_enum_fields" ->
           [object EXCEPT !.fields = get_enum_fields(temp_gram)]
      [] fn = "get_method" ->
           [object EXCEPT !.methods =
               Append(@, get_method(temp_gram, jdoc, line_num, signature))]
      [] fn = "get_object" -> get_object(temp_gram, jdoc, signature, object)
      [] OTHER -> object

\* A slip: gram_parts.clear() forgotten after the dispatch.
PartsKept(parts) == parts

\* A slip: symbols.clear() forgotten after the dispatch.
SymbolsKept(syms) == syms

\* The grammar parts and the word group kept after a terminator.
PartsAfterEnd(parts) == << >>
SymbolsAfterEnd(syms) == << >>

\* Token::ExpressionEnd(end)
BuildExpressionEnd ==
    /\ Building
    /\ ~ignore
    /\ token.k = "ExpressionEnd"
    /\ LET end == token.v
           temp_gram == gram_parts \o FlushSymbols(symbols)
           fn == HandlerOf(end, temp_gram)
       IN  /\ object' = Dispatch(fn, temp_gram)
           /\ pc' = IF fn = "panic" THEN "panic" ELSE pc
           /\ comment' = IF end \notin {";", "{"} THEN FALSE ELSE comment
           /\ last_call' =
                 IF fn \in {"none", "panic"} THEN last_call
                 ELSE [fn |-> fn, end |-> end, parts |-> temp_gram,
                       doc |-> jdoc, at |-> token.at, prev |-> last_end]
           /\ gram_parts' = PartsAfterEnd(temp_gram)
    /\ last_end' = token.at
    /\ parse_state' = "Other"
    /\ jdoc' = NewDoc
    /\ symbols' = SymbolsAfterEnd(symbols)
    /\ tpos' = tpos + 1
    /\ UNCHANGED <<appvars, file, content, lexvars, annotation, ignore, in_object, doc,
                   doc_tokens, method, comment_buf, linevars, result>>

\* Token::LineNumber(num)
BuildLineNumber ==
    /\ Building
    /\ ~ignore
    /\ token.k = "LineNumber"
    /\ line_num' = token.v
    /\ tpos' = tpos + 1
    /\ UNCHANGED <<appvars, file, content, pc, lexvars, flagvars, bufvars, signature, object,
                   result, histvars>>

\* Token::Sign(line)
BuildSign ==
    /\ Building
    /\ ~ignore
    /\ token.k = "Sign"
    /\ signature' = token.v
    /\ tpos' = tpos + 1
    /\ UNCHANGED <<appvars, file, content, pc, lexvars, flagvars, bufvars, line_num, object,
                   result, histvars>>

\* A slip: the arms of the final match confused, Unset without a value.
KindConfused(state) ==
    CASE state = "Class" -> "Class"
      [] state = "Interface" -> "Class"
      [] state = "Enumeration" -> "Enumeration"
      [] state = "Unset" -> "none"

\* The kind of ObjectType the final match on object.state returns.
KindOf(state) ==
    CASE state = "Class" -> "Class"
      [] state = "Interface" -> "Interface"
      [] state = "Enumeration" -> "Enumeration"
      [] state = "Unset" -> "Class"

\* The end of the token loop: match object.state { ... }
Finish ==
    /\ pc = "build"
    /\ tpos > Len(tokens)
    /\ result' = [kind |-> KindOf(object.state), ob |-> object]
    /\ pc' = "done"
    /\ UNCHANGED <<appvars, file, content, lexvars, tpos, flagvars, bufvars, linevars,
                   object, histvars>>

-----------------------------------------------------------------------------
(* The source texts the file may hold.                                     *)

SeqsUpTo(A, n) == UNION {[1..k -> A] : k \in 0..n}

\* A text is cut into items at its delimiters: no two words are neighbours.
Canonical(src) ==
    \A i \in 1..(Len(src) - 1) : ~(IsWord(src[i]) /\ IsWord(src[i + 1]))

\* The scenario of the round trip: a package, a documented method.
RoundTripSrc ==
    <<"package", " ", "com.example", ";", "\n",
      "/**", "\n",
      " ", "*", " ", "Adds", " ", "two", " ", "numbers.", "\n",
      " ", "*", " ", "@param", " ", "a", " ", "first", " ", "value", "\n",
      " ", "*", " ", "@param", " ", "b", " ", "second", " ", "value", "\n",
      " ", "*", " ", "@return", " ", "the", " ", "sum", "\n",
      " ", "*/", "\n",
      "public", " ", "int", " ", "add", "(", "int", " ", "a", ",", " ",
      "int", " ", "b", ")", " ", "{", "\n",
      " ", " ", " ", " ", "return", " ", "a", " ", "+", " ", "b", ";", "\n",
      "}", "\n">>

\* Short texts over a small alphabet, of every shape.
FreeItems == {"//", "/*", "/**", "*/", "static", "class", "enum", "@Ann", "x",
              ";", "{", "}", "(", ")", ",", " ", "\n"}
FreeSrcs == {src \in SeqsUpTo(FreeItems, MaxFree) : Canonical(src)}

\* A documented method with a body in a class, followed by a second method.
DocTags == {<<"@param", " ", "a", " ", "first">>,
            <<"@param", " ", "c", " ", "third">>,
            <<"@param", " ", "a", " ", "other">>,
            <<"@return", " ", "sum">>}
ParamNames == {"a", "b"}

\* The tag line that may close the comment after the chosen tags.
Closings == {<< >>, <<"*", " ", "@since", " ", "1", "\n">>}

DocLines(tags, closing) ==
    <<"/**", " ", "Adds", "\n">>
      \o Flat([i \in 1..Len(tags) |-> <<"*", " ">> \o tags[i] \o <<"\n">>])
      \o closing \o <<"*/", "\n">>
ParamList(names) ==
    Flat([i \in 1..Len(names) |->
             (IF i > 1 THEN <<",", " ">> ELSE << >>) \o <<"int", " ", names[i]>>])
DocMethodSrc(tags, closing, names) ==
    <<"class", " ", "C", " ", "{", "\n">>
      \o DocLines(tags, closing)
      \o <<"public", " ", "int", " ", "add", "(">> \o ParamList(names)
      \o <<")", " ", "{", " ", "return", " ", "a", ";", " ", "}", "\n">>
      \o <<"void", " ", "run", "(", ")", " ", "{", " ", "}", "\n", "}">>
DocMethodSrcs ==
    {DocMethodSrc(tags, closing, names) :
        tags \in SeqsUpTo(DocTags, MaxTags),
        closing \in Closings,
        names \in SeqsUpTo(ParamNames, MaxParams)}

\* An enum whose body lists n identifiers.
Idents == <<"RED", "GREEN", "BLUE", "BLACK", "WHITE", "GREY">>
NameList(names, n) ==
    Flat([i \in 1..n |->
             (IF i > 1 THEN <<",", " ">> ELSE << >>) \o <<names[i]>>])
EnumSrc(n) ==
    <<"public", " ", "enum", " ", "E", " ", "{", "\n">>
      \o NameList(Idents, n) \o <<";", "\n", "}", "\n">>
EnumSrcs == {EnumSrc(n) : n \in 0..MaxEnum}

\* A type header with an implements list of n names.
Ifaces == <<"A", "B", "D", "F", "G", "H">>
ImplSrc(kw, n) ==
    <<"public", " ", kw, " ", "C", " ", "extends", " ", "P", " ",
      "implements", " ">> \o NameList(Ifaces, n) \o <<" ", "{", "\n", "}">>
ImplSrcs == {ImplSrc(kw, n) : kw \in {"class"}, n \in 1..MaxEnum}

\* A field in a class body, with or without an initializer.
Initializers == {<<"MAX">>, <<"MAX", " ", "=", " ", "10">>,
                 <<"MAX=", " ", "10">>, <<"MAX", " ", "=10">>}
FieldSrc(access, mods, init) ==
    <<"class", " ", "C", " ", "{", "\n">>
      \o Flat([i \in 1..Len(access) |-> <<access[i], " ">>])
      \o Flat([i \in 1..Len(mods) |-> <<mods[i], " ">>])
      \o <<"int", " ">> \o init \o <<";", "\n", "}">>
FieldSrcs ==
    {FieldSrc(access, mods, init) :
        access \in {<< >>, <<"private">>},
        mods \in {<< >>, <<"static">>, <<"static", "final">>},
        init \in Initializers}

\* A type with a nested type header in its body.
NestedHeaders == {<<"class", " ", "N">>,
                  <<"private", " ", "static", " ", "class", " ", "N", " ",
                    "extends", " ", "Q", " ", "implements", " ", "B">>,
                  <<"interface", " ", "J">>,
                  <<"enum", " ", "K">>}
NestedSrc(kw, header) ==
    <<"public", " ", kw, " ", "C", " ", "extends", " ", "P", " ",
      "implements", " ", "A", " ", "{", "\n", "int", " ", "x", ";", "\n">>
      \o header \o <<" ", "{", "\n", "}", "\n", "}">>
NestedSrcs ==
    {NestedSrc(kw, header) :
        kw \in {"class", "interface"}, header \in NestedHeaders}

\* Signatures in a type body: a constructor, a method with a throws clause,
\* a declaration of two names, each with or without a documented exception.
Signatures == {<<"public", " ", "C", "(", ")", " ", "{", " ", "}">>,
               <<"void", " ", "run", "(", ")", " ", "throws", " ", "X", " ",
                 "{", " ", "}">>,
               <<"void", " ", "run", "(", "int", " ", "a", ")", " ", "throws",
                 " ", "X", ";">>,
               <<"int", " ", "a", ",", " ", "b", ";">>}
ThrowsDocs == {<< >>,
               <<"/**", " ", "Runs", "\n", "*", " ", "@throws", " ", "X", " ",
                 "never", "\n", "*/", "\n">>,
               <<"/**", " ", "Runs", "\n", "*", " ", "@exception", " ", "X",
                 " ", "never", "\n", "*", " ", "@throws", " ", "Y", " ",
                 "always", "\n", "*", " ", "@since", " ", "1", "\n", "*/",
                 "\n">>}
SignatureSrc(kw, jd, sig) ==
    <<kw, " ", "C", " ", "{", "\n">> \o jd \o sig \o <<"\n", "}">>
SignatureSrcs ==
    {SignatureSrc(kw, jd, sig) :
        kw \in {"class", "interface"}, jd \in ThrowsDocs, sig \in Signatures}

\* A file: a leading comment, statements before the type, the type header.
LeadComments == {<< >>,
                 <<"/**", " ", "Doc", " ", "text", "\n", "*/", "\n">>,
                 <<"/**", " ", "The", " ", "class", " ", "Doc", "\n", "*/",
                   "\n">>,
                 <<"/**", "\n", "*", " ", "@author", " ", "Ann", "\n", "*/",
                   "\n">>,
                 <<"/*", " ", "an", " ", "interface", " ", "*/", "\n">>,
                 <<"//", " ", "enum", " ", "E", "\n">>}
Statements == {<< >>,
               <<"import", " ", "a.b", ";", "\n">>,
               <<"package", " ", "p", ";", "\n", "import", " ", "a.b", ";",
                 "\n", "import", " ", "c.d", ";", "\n">>}
FileSrc(lead, stmts, kw) ==
    lead \o stmts \o <<"public", " ", kw, " ", "C", " ", "{", "\n", "}">>
FileSrcs ==
    {FileSrc(lead, stmts, kw) :
        lead \in LeadComments, stmts \in Statements,
        kw \in {"class", "interface", "enum"}}

\* An annotation with an argument list, before a declaration in a class body
\* or before the type header.
AnnotArgs == {<<"x">>,
              <<"{", "a", "}">>,
              <<"a", ";", "b">>,
              <<"f", "(", "y", ")", ",", " ", "int", " ", "z">>}
AnnotDecls == {<<"void", " ", "run", "(", ")", " ", "{", " ", "}">>,
               <<"int", " ", "x", ";">>}
Annotation(args) == <<"@Ann", "(">> \o args \o <<")", " ">>
AnnotSrc(pre, args, decl) ==
    <<"class", " ", "C", " ", "{", "\n">> \o pre \o Annotation(args) \o decl
      \o <<"\n", "}">>
AnnotHeaderSrc(pre, args) ==
    pre \o Annotation(args) \o <<"class", " ", "C", " ", "{", "\n", "}">>
AnnotSrcs ==
    {AnnotSrc(pre, args, decl) :
        pre \in {<< >>, <<"public", " ">>}, args \in AnnotArgs,
        decl \in AnnotDecls}
      \cup {AnnotHeaderSrc(pre, args) :
              pre \in {<< >>, <<"public", " ">>}, args \in AnnotArgs}

\* A method whose body holds nested blocks, followed by a field.
Bodies == {<<"return", ";">>,
           <<"if", " ", "(", "a", ")", " ", "{", " ", "b", "(", ")", ";", " ",
             "}", "\n", "return", ";">>,
           <<"for", " ", "(", ";", ";", ")", " ", "{", " ", "if", " ", "(",
             "a", ")", " ", "{", "\n", "int", " ", "b", ",", " ", "c", ";",
             "\n", "}", " ", "}">>}
BodySrc(kw, body) ==
    <<kw, " ", "C", " ", "{", "\n", "void", " ", "run", "(", ")", " ", "{",
      "\n">> \o body \o <<"\n", "}", "\n", "int", " ", "w", ";", "\n", "}">>
BodySrcs == {BodySrc(kw, body) : kw \in {"class", "interface"}, body \in Bodies}

\* Two comment openers on one line, statements after them, then a closer.
CommentOpeners == {"//", "/*", "/**", "//TODO"}
CommentSrc(first, second) ==
    <<first, " ", second, " ", "x", ";", "\n", "y", " ", "*/", " ", "z", ";",
      "\n">>
CommentSrcs ==
    {CommentSrc(first, second) : first, second \in CommentOpeners}

\* A method whose parameter list ends with a single word.
LoneParams == {<<"x">>, <<"int", " ", "a", ",", " ", "b">>}
LoneParamSrc(kw, params, end) ==
    <<kw, " ", "C", " ", "{", "\n", "void", " ", "run", "(">> \o params
      \o <<")", end, "\n", "}">>
LoneParamSrcs ==
    {LoneParamSrc(kw, params, end) :
        kw \in {"class", "interface"}, params \in LoneParams,
        end \in {";", "{"}}

Sources ==
    {RoundTripSrc} \cup FreeSrcs \cup DocMethodSrcs \cup EnumSrcs
      \cup ImplSrcs \cup FieldSrcs \cup NestedSrcs \cup SignatureSrcs
      \cup FileSrcs \cup AnnotSrcs \cup BodySrcs \cup CommentSrcs
      \cup LoneParamSrcs

-----------------------------------------------------------------------------
(* ApplicationDoc: the packages of the project and their classes.          *)

\* Package::add_class
add_class(p, class_name) == [p EXCEPT !.members = Append(@, class_name)]

\* ApplicationDoc::new
NewApplicationDoc ==
    [file_num |-> 0, class_num |-> 0, interface_num |-> 0, enum_num |-> 0,
     packages |-> << >>]

\* A slip: the search result is not consulted, a package is always pushed.
add_package_always(doc_app, package, dir, class) ==
    [doc_app EXCEPT
        !.packages =
            Append([i \in DOMAIN @ |->
                       IF package = @[i].name THEN add_class(@[i], class)
                       ELSE @[i]],
                   [name |-> package, package_path |-> dir,
                    members |-> <<class>>])]

\* ApplicationDoc::add_package_class: the class is added to every package of
\* that name; when there is none, a package is pushed with the class.
add_package_class(doc_app, package, dir, class) ==
    LET found == \E i \in DOMAIN doc_app.packages :
                     package = doc_app.packages[i].name
        added == [i \in DOMAIN doc_app.packages |->
                     IF package = doc_app.packages[i].name
                     THEN add_class(doc_app.packages[i], class)
                     ELSE doc_app.packages[i]]
    IN  [doc_app EXCEPT
            !.packages =
                IF found THEN added
                ELSE Append(added, [name |-> package, package_path |-> dir,
                                    members |-> <<class>>])]

\* The arguments of the calls.
PackageNames == {"p", "q"}
Dirs == {"src/p", "lib/p"}
ClassNames == {"A", "B"}
NoAppCall == [n |-> 0, package |-> "", dir |-> "", class |-> ""]

\* One call of add_package_class on the ApplicationDoc.
AddPackageClass ==
    /\ app_call.n < MaxCalls
    /\ \E package \in PackageNames, dir \in Dirs, class \in ClassNames :
          /\ app' = add_package_class(app, package, dir, class)
          /\ app_call' = [n |-> app_call.n + 1, package |-> package,
                          dir |-> dir, class |-> class]
    /\ UNCHANGED <<file, content, pc, lexvars, tpos, flagvars, bufvars,
                   linevars, object, result, histvars>>

-----------------------------------------------------------------------------
(* parse_file: the text is lexed, then the declaration is built.           *)

\* What File::open and read_to_string meet at the path.
Files == {"text", "unreadable", "missing"}

\* File::open(path).expect("Could not open file")
OpenFile ==
    /\ pc = "open"
    /\ pc' = IF file = "missing" THEN "failed" ELSE "read"
    /\ UNCHANGED <<appvars, file, content, lexvars, tpos, flagvars, bufvars, linevars,
                   object, result, histvars>>

\* buf.read_to_string(&mut contents), and the branch on res.is_ok()
ReadFile ==
    /\ pc = "read"
    /\ IF file = "text"
       THEN pc' = "lex" /\ result' = result
       ELSE pc' = "done" /\ result' = [kind |-> "Class", ob |-> NewObject]
    /\ UNCHANGED <<appvars, file, content, lexvars, tpos, flagvars, bufvars, linevars,
                   object, histvars>>

Init ==
    /\ file \in Files
    /\ content \in IF file = "text" THEN Sources ELSE {<< >>}
    /\ pc = "open"
    /\ pos = 1
    /\ tokens = <<Tok("LineNumber", to_string(1), 0)>>
    /\ curr_token = ""
    /\ block_depth = 0
    /\ line_number = 1
    /\ curr_line = << >>
    /\ tpos = 1
    /\ annotation = FALSE
    /\ ignore = FALSE
    /\ object = NewObject
    /\ in_object = FALSE
    /\ parse_state = "Other"
    /\ doc = FALSE
    /\ comment = FALSE
    /\ jdoc = NewDoc
    /\ symbols = << >>
    /\ doc_tokens = << >>
    /\ method = NewMethod
    /\ gram_parts = << >>
    /\ comment_buf = << >>
    /\ line_num = ""
    /\ signature = << >>
    /\ result = NoResult
    /\ last_call = NoCall
    /\ last_end = 0
    /\ app = NewApplicationDoc
    /\ app_call = NoAppCall

Next ==
    \/ OpenFile
    \/ ReadFile
    \/ LexChar
    \/ LexEnd
    \/ BuildIgnored
    \/ BuildKeyword
    \/ BuildSymbol
    \/ BuildJoin
    \/ BuildParamStart
    \/ BuildParamEnd
    \/ BuildExpressionEnd
    \/ BuildLineNumber
    \/ BuildSign
    \/ Finish

Spec == Init /\ [][Next]_vars

\* The ApplicationDoc on its own: a fresh one, then calls of add_package_class.
AppInit == file = "missing" /\ Init
AppNext == AddPackageClass
AppSpec == AppInit /\ [][AppNext]_vars

-----------------------------------------------------------------------------
(* The claims.                                                             *)

Done == pc = "done"
Ob == result.ob
Range(f) == {f[i] : i \in DOMAIN f}

\* C1: the round-trip scenario yields a Class of package com.example with one
\* method add, public, whose return type is the documented return text
\* "the sum", and two parameters a and b with their documented descriptions.
C1_RoundTrip ==
    (Done /\ content = RoundTripSrc) =>
        /\ result.kind = "Class"
        /\ Ob.package_name = "com.example"
        /\ Len(Ob.methods) = 1
        /\ LET m == Ob.methods[1]
           IN  /\ m.name = "add"
               /\ m.privacy = "public"
               /\ m.return_type \in {<<"the", "sum">>, <<"the", "sum", "">>}
               /\ Len(m.parameters) = 2
               /\ m.parameters[1].name = "a"
               /\ m.parameters[1].desc
                     \in {<<"first", "value">>, <<"first", "value", "">>}
               /\ m.parameters[2].name = "b"
               /\ m.parameters[2].desc
                     \in {<<"second", "value">>, <<"second", "value", "">>}

\* The method handler has just built the latest method of the object.
MethodCall == last_call.fn = "get_method"
Declared == MethodWalk(last_call.parts, last_call.doc).parameters
Documented == last_call.doc.params
Reconciled == Last(object.methods).parameters

\* C2: after a method signature is handled with a pending Doc, a declared
\* parameter named like a documented one carries that entry's description, a
\* declared parameter that no entry names has an empty description, and no
\* documented parameter that names no declared one is in the final list.
C2_ParamsReconciled ==
    MethodCall =>
        /\ \A i \in DOMAIN Declared : \A j \in DOMAIN Documented :
              Declared[i].name = Documented[j].name =>
                  Param(Declared[i].var_type, Declared[i].name,
                        Documented[j].desc) \in Range(Reconciled)
        /\ \A i \in DOMAIN Declared :
              (\A j \in DOMAIN Documented :
                  Declared[i].name # Documented[j].name) =>
                  /\ \E k \in DOMAIN Reconciled :
                        Reconciled[k].name = Declared[i].name
                  /\ \A k \in DOMAIN Reconciled :
                        Reconciled[k].name = Declared[i].name =>
                            Reconciled[k].desc = << >>
        /\ \A k \in DOMAIN Reconciled :
              /\ \E i \in DOMAIN Declared :
                    Reconciled[k].name = Declared[i].name
              /\ Reconciled[k].desc # << >> =>
                    \E j \in DOMAIN Documented :
                        /\ Documented[j].name = Reconciled[k].name
                        /\ Documented[j].desc = Reconciled[k].desc

\* A call with a matched, an unmatched and an undeclared documented name.
C2_Witness ==
    /\ MethodCall
    /\ \E i \in DOMAIN Declared : \E j \in DOMAIN Documented :
          Declared[i].name = Documented[j].name /\ Documented[j].desc # << >>
    /\ \E i \in DOMAIN Declared : \A j \in DOMAIN Documented :
          Declared[i].name # Documented[j].name
    /\ \E j \in DOMAIN Documented : \A i \in DOMAIN Declared :
          Declared[i].name # Documented[j].name

InitializedFields ==
    {[src |-> FieldSrc(access, mods, <<"MAX", " ", "=", " ", "10">>),
      access |-> access, mods |-> mods] :
        access \in {<< >>, <<"private">>},
        mods \in {<< >>, <<"static">>, <<"static", "final">>}}

\* C3: a field with an initializer in a class body, <access> <modifiers> int
\* MAX = 10;, yields exactly one Member of type int, name MAX, the given
\* access and the given modifiers in order.
C3_InitializedField ==
    \A f \in InitializedFields :
        (Done /\ content = f.src) =>
            /\ Len(Ob.variables) = 1
            /\ Ob.variables[1].var_type = <<"int">>
            /\ Ob.variables[1].name = <<"MAX">>
            /\ Ob.variables[1].access = Concat(f.access)
            /\ Ob.variables[1].modifiers = f.mods

\* C4: an enum body of n identifiers separated by commas and closed by ";"
\* yields n EnumFields, in order, with the values "0" .. "n-1".
C4_EnumFields ==
    \A n \in 0..MaxEnum :
        (Done /\ content = EnumSrc(n)) =>
            /\ result.kind = "Enumeration"
            /\ Ob.fields =
                  [i \in 1..n |-> [name |-> Idents[i], value |-> to_string(i - 1)]]

RECURSIVE InComment(_, _, _)
\* Whether the items from i on are white space and comments, read in mode m:
\* "//" runs to the end of the line, "/*" and "/**" run to "*/".
InComment(src, i, m) ==
    IF i > Len(src) THEN m # "block"
    ELSE CASE m = "code" ->
                CASE src[i] \in White -> InComment(src, i + 1, "code")
                  [] src[i] \in {"//", "//TODO"} -> InComment(src, i + 1, "line")
                  [] src[i] \in {"/*", "/**"} -> InComment(src, i + 1, "block")
                  [] OTHER -> FALSE
           [] m = "line" ->
                InComment(src, i + 1, IF src[i] = "\n" THEN "code" ELSE "line")
           [] m = "block" ->
                InComment(src, i + 1, IF src[i] = "*/" THEN "code" ELSE "block")

TypeKeywords == {"class", "interface", "enum"}
CommentsOnly(src) ==
    /\ InComment(src, 1, "code")
    /\ \A i \in DOMAIN src : src[i] \notin TypeKeywords

\* C5: a text of white space and comments only, without a type keyword,
\* yields a Class with no method, no member variable and no enum field.
C5_CommentsOnlyEmpty ==
    (Done /\ CommentsOnly(content)) =>
        /\ result.kind = "Class"
        /\ Ob.methods = << >>
        /\ Ob.variables = << >>
        /\ Ob.fields = << >>

\* C6: the grammar parts passed to the method handler at the "{" of a
\* signature all come from the source between the terminator before the
\* signature and that "{": none comes from the body that the "{" opens.
C6_SignatureTokensOnly ==
    (MethodCall /\ last_call.end = "{") =>
        \A i \in DOMAIN last_call.parts :
            /\ last_call.prev < last_call.parts[i].at
            /\ last_call.parts[i].at < last_call.at

\* A method record built at the "{" of a signature followed by body words.
C6_Witness ==
    /\ MethodCall
    /\ last_call.end = "{"
    /\ Len(last_call.parts) >= 3
    /\ content[last_call.at] = "{"
    /\ \E q \in (last_call.at + 1)..Len(content) : content[q] = "return"
    /\ Last(object.methods).name = "add"

\* C7: every name of a comma-separated implements list is recorded in the
\* implemented interfaces, in source order.
C7_ImplementsList ==
    \A n \in 1..MaxEnum :
        (Done /\ content = ImplSrc("class", n)) =>
            Ob.interfaces = SubSeq(Ifaces, 1, n)

\* C8: a nested type header in the body of the top-level type leaves the
\* name, access, modifiers, parent and implemented interfaces of the object
\* as the top-level header set them, and the ObjectType is the top-level type.
C8_NestedHeaderSkipped ==
    \A kw \in {"class", "interface"} : \A header \in NestedHeaders :
        (Done /\ content = NestedSrc(kw, header)) =>
            /\ result.kind = KindOf(ObjectStateOf(kw))
            /\ Ob.name = "C"
            /\ Ob.access = "public"
            /\ Ob.modifiers = << >>
            /\ Ob.parent = "P"
            /\ Ob.interfaces = <<"A">>

\* C9: at the end of the token stream the kind of the ObjectType returned is
\* the final ObjectState, and a Class when the state is Unset; a text with
\* no type keyword ends Unset and still returns a Class.
C9_KindFollowsState ==
    /\ ~Done => result = NoResult
    /\ Done =>
          /\ Ob = object
          /\ object.state = "Class" => result.kind = "Class"
          /\ object.state = "Interface" => result.kind = "Interface"
          /\ object.state = "Enumeration" => result.kind = "Enumeration"
          /\ object.state = "Unset" => result.kind = "Class"
          /\ (\A i \in DOMAIN content : content[i] \notin TypeKeywords) =>
                object.state = "Unset" /\ result.kind = "Class"

\* A text without a type keyword, with statements, has returned a Class.
C9_Witness ==
    /\ Done
    /\ object.state = "Unset"
    /\ result.kind = "Class"
    /\ object.methods # << >>

TokenKinds == {"Keyword", "Symbol", "Join", "ParamStart", "ParamEnd",
               "ExpressionEnd", "LineNumber", "Sign"}

\* No fatal branch, only ";" and "{" as terminators, a next step to take
\* until the return, and an ObjectType at the return.
NoAbort ==
    /\ pc \in {"open", "read", "failed", "lex", "build", "done"}
    /\ \A i \in DOMAIN tokens :
          tokens[i].k = "ExpressionEnd" => tokens[i].v \in {";", "{"}
    /\ pos <= Len(content) + 1
    /\ tpos <= Len(tokens) + 1
    /\ (pc = "build" /\ tpos <= Len(tokens)) => token.k \in TokenKinds
    /\ Done => result.kind \in {"Class", "Interface", "Enumeration"}

\* Every step moves on in the text or in the tokens, or is the return.
Progress ==
    \/ pc = "open" /\ pc' \in {"read", "failed"}
    \/ pc = "read" /\ pc' \in {"lex", "done"}
    \/ pc = "lex" /\ pc' = "lex" /\ pos' = pos + 1
    \/ pc = "lex" /\ pc' = "build" /\ pos > Len(content)
    \/ pc = "build" /\ pc' = "build" /\ tpos' = tpos + 1
    \/ pc = "build" /\ pc' = "done" /\ tpos > Len(tokens)

\* C10: the lexer only emits ExpressionEnd with ";" or "{", the builder never
\* reaches its fatal branch nor stops before the end of the tokens, and the
\* run ends with an ObjectType.
C10_NoAbort == []NoAbort /\ [][Progress]_vars

\* A text with both braces, a terminator inside a comment and a statement
\* of no supported shape has been parsed to the end.
C10_Witness ==
    /\ Done
    /\ \E i \in DOMAIN content : content[i] = "}"
    /\ \E i, j \in DOMAIN content :
          i < j /\ content[i] \in {"//", "/*", "/**"} /\ content[j] \in {";", "{"}
    /\ \E i \in DOMAIN tokens : tokens[i].k = "ExpressionEnd"

\* C11: when the file cannot be opened or cannot be read, the caller gets no
\* ObjectType at all, and the lexer and the builder run only on a text that
\* was read in full.
C11_NoValueOnFailure ==
    /\ file # "text" =>
          /\ result = NoResult
          /\ pc \notin {"lex", "build", "done"}
    /\ pc \in {"lex", "build"} => file = "text"

\* The lexer has returned the tokens of the text.
Lexed == pc \in {"build", "done"} /\ file = "text"
\* The physical line of the item at index p, the newline closing its line.
LineOf(p) == 1 + Cardinality({q \in 1..(p - 1) : content[q] = "\n"})
PhysicalLines == {LineOf(p) : p \in DOMAIN content}
\* The text of line k without its newline.
LineItems(k) ==
    LET ps == {p \in DOMAIN content : LineOf(p) = k /\ content[p] # "\n"}
    IN  IF ps = {} THEN << >>
        ELSE LET lo == CHOOSE p \in ps : \A q \in ps : p <= q
                 hi == CHOOSE p \in ps : \A q \in ps : q <= p
             IN  SubSeq(content, lo, hi)
LineMarks == {"LineNumber", "Sign"}

\* C12: in the lexer's output every physical line has exactly one LineNumber
\* token, before the tokens of the line, and exactly one Sign token with the
\* trimmed text of the line, after them, and no other LineNumber in between.
C12_LineTokens ==
    Lexed =>
        \A k \in PhysicalLines :
            \E i, j \in DOMAIN tokens :
                /\ tokens[i].k = "LineNumber" /\ tokens[i].v = to_string(k)
                /\ \A h \in DOMAIN tokens :
                      (tokens[h].k = "LineNumber" /\ tokens[h].v = to_string(k))
                          => h = i
                /\ tokens[j].k = "Sign" /\ LineOf(tokens[j].at) = k
                /\ tokens[j].v = Trim(LineItems(k))
                /\ \A h \in DOMAIN tokens :
                      (tokens[h].k = "Sign" /\ LineOf(tokens[h].at) = k) => h = j
                /\ i < j
                /\ \A t \in DOMAIN tokens :
                      (tokens[t].k \notin LineMarks /\ LineOf(tokens[t].at) = k)
                          => (i < t /\ t < j)
                /\ \A t \in (i + 1)..(j - 1) : tokens[t].k # "LineNumber"

\* A step that leaves the ObjectState as it is once it is no longer Unset.
StateKept == object.state # "Unset" => object'.state = object.state

\* C13: once the ObjectState has left Unset no later step changes it,
\* whatever type keywords follow in the token stream.
C13_StateFixed == [][StateKept]_vars

\* The trimmed text of the line on which the latest handled terminator stands.
TerminatorLine == Trim(LineItems(LineOf(last_call.at)))

\* C14: the signature given to an object header or to a method record is the
\* trimmed text of the source line on which its terminator stands.
C14_SignatureOfOwnLine ==
    /\ last_call.fn = "get_object" => object.signature = TerminatorLine
    /\ last_call.fn = "get_method" =>
          Last(object.methods).signature = TerminatorLine

RECURSIVE NameCount(_, _, _)
\* How often the loop of get_method assigns the method's name on the parts.
NameCount(w, parts, java_doc) ==
    IF parts = << >> THEN 0
    ELSE (IF Head(parts).k = "Variable" /\ w.ps = "MethodName" THEN 1 ELSE 0)
           + NameCount(MethodStep(w, Head(parts), java_doc), Tail(parts),
                       java_doc)
NameAssignments ==
    NameCount([m |-> NewMethod, param_type |-> << >>, ps |-> "Other"],
              last_call.parts, last_call.doc)

\* C15: while one method signature is handled the name of the Method is
\* assigned exactly once, neither twice nor never.
C15_NameOnce == MethodCall => NameAssignments = 1

\* The builder is at the token that closes a doc comment.
DocClose ==
    /\ Building /\ ~ignore
    /\ token.k = "Symbol" /\ token.v = "*/"
    /\ doc
\* The state of the doc-comment parser after the last token of the comment.
FinalSection == DocLoop(DocStart, doc_tokens, 1)
\* The text of the section that ends in state st is in the field of out that
\* the section owns.
SectionStored(st, text, out) ==
    CASE st = "Desc" -> out.description = text
      [] st = "JdocReturn" -> out.return_desc = text
      [] st = "Param" ->
           \E i \in DOMAIN out.params : out.params[i].name = Split(text)[1]
      [] st = "Author" -> out.author = text
      [] st = "Deprecated" -> out.deprecated = text
      [] st \in {"Since", "Version"} -> out.version = text
      [] st \in {"Link", "See"} -> out.see = text
      [] st = "Exception" ->
           \E i \in DOMAIN out.exceptions :
               out.exceptions[i].exception_type = Split(text)[1]
      [] OTHER -> TRUE
FinalStored ==
    (DocClose /\ FinalSection.word_buf # << >>) =>
        SectionStored(FinalSection.state, FinalSection.word_buf, jdoc')
\* A type header that follows a doc comment without tags, and its text.
TaglessLead == <<"/**", " ", "Doc", " ", "text", "\n", "*/", "\n">>
HeaderDescribed ==
    \A kw \in {"class", "interface", "enum"} :
        (Done /\ content = FileSrc(TaglessLead, << >>, kw)) =>
            Ob.description \in {<<"Doc", "text">>, <<"Doc", "text", "">>}

\* C16: the doc-comment parser stores the text of the last section of a
\* comment in the field that owns it, as it does for the sections before,
\* and a type header after a comment without tags gets its text as description.
C16_FinalSectionStored == [][FinalStored]_vars /\ []HeaderDescribed

\* C17: the identifier that follows the throws marker of a method signature
\* is in the exception list of the Method built from that signature.
C17_ThrowsRecorded ==
    MethodCall =>
        \A i \in 1..(Len(last_call.parts) - 1) :
            (last_call.parts[i].k = "Exception"
               /\ last_call.parts[i + 1].k = "Variable") =>
                \E e \in Range(Last(object.methods).exceptions) :
                    e.exception_type = last_call.parts[i + 1].v

\* The builder is at a type keyword that stands in a doc or comment span.
TypeKeywordInComment ==
    /\ Building /\ ~ignore
    /\ token.k = "Keyword" /\ token.v \in TypeKeywords
    /\ (doc \/ comment)
ObjectParts(parts) == {i \in DOMAIN parts : parts[i].k = "Object"}
\* The step leaves the declaration state of the builder as it is.
KeywordInert ==
    TypeKeywordInComment =>
        /\ object'.state = object.state
        /\ parse_state' = parse_state
        /\ in_object' = in_object
        /\ Cardinality(ObjectParts(gram_parts'))
              = Cardinality(ObjectParts(gram_parts))
\* The leading comments that hold a type keyword and are closed before the
\* statements, and what the statements between them and the header declare.
KeywordLeads == {<<"/**", " ", "The", " ", "class", " ", "Doc", "\n", "*/",
                   "\n">>,
                 <<"/*", " ", "an", " ", "interface", " ", "*/", "\n">>}
StatementsOutside ==
    \A lead \in KeywordLeads : \A kw \in TypeKeywords :
        /\ (Done /\ content = FileSrc(lead, <<"import", " ", "a.b", ";", "\n">>,
                                      kw)) =>
              /\ Ob.dependencies = <<"a.b">>
              /\ Ob.methods = << >> /\ Ob.variables = << >>
        /\ (Done /\ content =
                      FileSrc(lead, <<"package", " ", "p", ";", "\n",
                                      "import", " ", "a.b", ";", "\n",
                                      "import", " ", "c.d", ";", "\n">>, kw)) =>
              /\ Ob.package_name = "p"
              /\ Ob.dependencies = <<"a.b", "c.d">>
              /\ Ob.methods = << >> /\ Ob.variables = << >>

\* C18: a type keyword inside a doc or comment span changes neither the
\* ObjectState nor parse_state nor in_object and adds no Object part, and the
\* import and package statements after the comment are handled as statements
\* outside the object.
C18_KeywordInCommentInert == [][KeywordInert]_vars /\ []StatementsOutside

\* The state the builder is in after a terminator: nothing is pending.
NothingPending ==
    /\ parse_state = "Other"
    /\ jdoc = NewDoc
    /\ gram_parts = << >>
    /\ symbols = << >>
\* The builder consumes an ExpressionEnd token, in whatever mode.
EndConsumed == Building /\ token.k = "ExpressionEnd"
\* The builder handles an ExpressionEnd token: it is not in ignore mode.
EndHandled == EndConsumed /\ ~ignore

\* C19 as stated: after the builder consumes any ExpressionEnd token,
\* parse_state is Other, the pending Doc is empty, and the grammar parts and
\* the word group are empty.
C19_ResetAfterAnyEnd == [][EndConsumed => NothingPending']_vars

\* C19: after the builder handles an ExpressionEnd token outside ignore mode,
\* parse_state is Other, the pending Doc is empty, and the grammar parts and
\* the word group are empty; a terminator skipped in ignore mode resets
\* nothing.
C19_ResetAfterEnd == [][EndHandled => NothingPending']_vars

\* A terminator was just handled with grammar parts and a Doc pending, and
\* nothing is pending any more.
C19_Witness ==
    /\ pc = "build" /\ tpos > 1
    /\ tokens[tpos - 1].k = "ExpressionEnd"
    /\ last_call # NoCall
    /\ last_call.at = tokens[tpos - 1].at
    /\ last_call.parts # << >>
    /\ last_call.doc # NewDoc
    /\ NothingPending

RECURSIVE MatchClose(_, _, _)
\* The index of the ")" that closes the parenthesis open at depth d before
\* index i, one past the end of the text when none does.
MatchClose(src, i, d) ==
    IF i > Len(src) THEN i
    ELSE IF src[i] = ")" THEN (IF d = 1 THEN i ELSE MatchClose(src, i + 1, d - 1))
    ELSE IF src[i] = "(" THEN MatchClose(src, i + 1, d + 1)
    ELSE MatchClose(src, i + 1, d)
\* The index p lies in the argument list of an annotation of the text.
InArgs(p) ==
    \E a \in DOMAIN content :
        /\ content[a] = "@Ann"
        /\ a + 1 <= Len(content) /\ content[a + 1] = "("
        /\ a + 1 < p /\ p < MatchClose(content, a + 2, 1)
NoPartFrom(parts) == \A i \in DOMAIN parts : ~InArgs(parts[i].at)

\* C20: from the ParamStart after an annotation marker to the ParamEnd that
\* matches it the builder is in ignore mode, and no grammar part, word or
\* handler call comes from the tokens of the annotation's argument list.
C20_AnnotationArgsIgnored ==
    /\ (Building /\ InArgs(token.at)) => ignore
    /\ NoPartFrom(gram_parts)
    /\ NoPartFrom(symbols)
    /\ last_call # NoCall => NoPartFrom(last_call.parts)

\* The nesting depth of the text before the item at index p.
DepthBefore(p) ==
    Cardinality({q \in 1..(p - 1) : content[q] = "{"})
      - Cardinality({q \in 1..(p - 1) : content[q] = "}"})
\* The token the lexer makes of the delimiter ch when it makes one.
KindOfDelim(ch) ==
    CASE ch = "," -> "Join"
      [] ch = ";" -> "ExpressionEnd"
      [] ch = "{" -> "ExpressionEnd"
      [] ch = "(" -> "ParamStart"
      [] ch = ")" -> "ParamEnd"
TokenAt(p, kinds) ==
    \E i \in DOMAIN tokens : tokens[i].at = p /\ tokens[i].k \in kinds

\* C21: while the lexer runs and when it returns, every token other than
\* LineNumber and Sign comes from an item read at depth below 2, the depth is
\* the balance of the braces read whatever their nesting, and every word and
\* delimiter read at depth below 2, those after a skipped block included,
\* has its token.
C21_DeepNotLexed ==
    (pc = "lex" \/ (pc = "build" /\ tpos = 1)) =>
        /\ \A i \in DOMAIN tokens :
              tokens[i].k \notin LineMarks => DepthBefore(tokens[i].at) < 2
        /\ pc = "lex" => block_depth = DepthBefore(pos)
        /\ \A p \in 1..(pos - 1) :
              DepthBefore(p) < 2 =>
                  /\ content[p] \in {",", ";", "(", ")", "{"} =>
                        TokenAt(p, {KindOfDelim(content[p])})
                  /\ (IsWord(content[p]) /\ p + 1 < pos) =>
                        TokenAt(p, {"Keyword", "Symbol"})

\* A text with a block nested in a skipped body has been lexed, and a word
\* after the body has its token.
C21_Witness ==
    /\ Lexed
    /\ \E p \in DOMAIN content :
          /\ DepthBefore(p) >= 3 /\ IsWord(content[p])
          /\ \E i \in DOMAIN tokens :
                /\ tokens[i].at > p /\ tokens[i].k = "Symbol"
                /\ DepthBefore(tokens[i].at) = 1

\* No class, interface or enum keyword stands before the current token.
NoTypeKeywordYet ==
    \A i \in 1..(tpos - 1) :
        ~(tokens[i].k = "Keyword" /\ tokens[i].v \in TypeKeywords)
\* The grammar parts are a marker of kind k and one Variable.
MarkerAndName(parts, k) ==
    Len(parts) = 2 /\ parts[1].k = k /\ parts[2].k = "Variable"
\* The step that handles the ";" of an import or a package statement changes
\* the dependencies or the package name and nothing else of the object.
StatementOutside ==
    (EndHandled /\ token.v = ";" /\ NoTypeKeywordYet) =>
        LET parts == gram_parts \o FlushSymbols(symbols)
        IN  /\ MarkerAndName(parts, "Import") =>
                  object' = [object EXCEPT
                                !.dependencies = Append(@, parts[2].v)]
            /\ MarkerAndName(parts, "Package") =>
                  object' = [object EXCEPT !.package_name = parts[2].v]

\* C22: before any type keyword, the ";" of a statement with the parts
\* Import, Variable(x) appends x to the dependencies, and that of one with
\* the parts Package, Variable(p) sets the package name to p; neither adds a
\* member variable, a method or an enum field nor changes the ObjectState.
C22_ImportAndPackage == [][StatementOutside]_vars

\* A package statement and two imports have been handled before the type.
C22_Witness ==
    /\ last_call # NoCall /\ last_call.fn = "import"
    /\ MarkerAndName(last_call.parts, "Import")
    /\ object.package_name = "p"
    /\ object.dependencies = <<"a.b", "c.d">>
    /\ object.state = "Unset"
    /\ object.variables = << >> /\ object.methods = << >>


\* A step that adds a Member gives it the line number and the signature the
\* builder holds at that terminator.
FieldAdded ==
    (EndHandled /\ Len(object'.variables) = Len(object.variables) + 1) =>
        /\ Last(object'.variables).line_number = line_num
        /\ Last(object'.variables).signature = signature

\* C23: every Member added for a field declaration carries the line number
\* and the signature that were current when its terminator was handled,
\* whether the declaration is plain, named after a type part, or initialized.
C23_MemberLineAndSignature == [][FieldAdded]_vars


\* The builder handles a Symbol token that opens a comment.
CommentOpened ==
    /\ Building /\ ~ignore /\ token.k = "Symbol"
    /\ token.v \in {"//", "/*"} \union SlashWords
\* The builder handles the Symbol token that closes a comment.
CommentClosed == Building /\ ~ignore /\ token.k = "Symbol" /\ token.v = "*/"
\* A step that appends no word to the word group.
NoSymbolAppended == symbols' = symbols \/ symbols' = << >>
\* A step keeps the comment flag that an opening word sets until the closing
\* word is handled, and appends no word to the word group meanwhile.
CommentKept ==
    /\ CommentOpened => (comment' /\ NoSymbolAppended)
    /\ (comment /\ ~CommentClosed) => (comment' /\ NoSymbolAppended)
    /\ (comment /\ ~comment') => CommentClosed

\* C24: once "//", "/*" or a word holding "//" has set the comment flag, the
\* flag stays set across line ends and terminators and only "*/" clears it;
\* until then no Symbol token is appended to the word group.
C24_CommentUntilClose == [][CommentKept]_vars

\* A "//" comment is still open after a terminator, a line end and a plain
\* word of the next line have been handled, and the word group is empty.
C24_Witness ==
    /\ pc = "build" /\ comment /\ symbols = << >>
    /\ \A h \in 1..(tpos - 1) :
          ~(tokens[h].k = "Symbol" /\ tokens[h].v \in AtWords \union {"*/"})
    /\ \E i, j, k, l \in 1..(tpos - 1) :
          /\ i < l /\ l < j /\ j < k
          /\ tokens[i].k = "Symbol" /\ tokens[i].v = "//"
          /\ tokens[j].k = "LineNumber"
          /\ tokens[k].k = "Symbol" /\ tokens[k].v = "y"
          /\ tokens[l].k = "ExpressionEnd"


\* C25: the list that match_params returns has the length of the declared
\* parameter list, with the declared names and types in the declared order,
\* also when several documented parameters share a name.
C25_ParamsKeepDeclaredShape ==
    MethodCall =>
        /\ Len(Reconciled) = Len(Declared)
        /\ \A i \in DOMAIN Declared :
              /\ Reconciled[i].name = Declared[i].name
              /\ Reconciled[i].var_type = Declared[i].var_type


\* The text holds no comment opener and no word with "@": every word of it
\* is handled as a plain symbol or as a keyword.
PlainText ==
    \A p \in DOMAIN content :
        content[p] \notin {"//", "/*", "/**"} \union SlashWords \union AtWords
\* The ParamEnd tokens at which exactly one word is pending: the word follows
\* the opening parenthesis or a comma.
LoneWordEnds ==
    {j \in DOMAIN tokens :
        /\ j > 2
        /\ tokens[j].k = "ParamEnd"
        /\ tokens[j - 1].k = "Symbol"
        /\ tokens[j - 2].k \in {"ParamStart", "Join"}}

\* C26: a lone word pending at ParamEnd is taken as the method name: the
\* Method record made at the next terminator has that word as its name.
C26_LoneWordNamesMethod ==
    (PlainText /\ last_call.fn = "get_method") =>
        \A j \in LoneWordEnds :
            (last_call.prev < tokens[j].at /\ tokens[j].at < last_call.at) =>
                Last(object.methods).name = tokens[j - 1].v


\* C27: the doc flag and the comment flag are never both set.
C27_DocAndCommentExclusive == ~(doc /\ comment)


\* The names of the packages are pairwise distinct.
DistinctNames ==
    \A i, j \in DOMAIN app.packages :
        app.packages[i].name = app.packages[j].name => i = j
\* The four counters are as ApplicationDoc::new left them.
CountersUntouched ==
    /\ app.file_num = 0 /\ app.class_num = 0
    /\ app.interface_num = 0 /\ app.enum_num = 0
\* The packages whose member list differs after the step, new ones included.
Touched ==
    {i \in DOMAIN app'.packages :
        i \notin DOMAIN app.packages
          \/ app'.packages[i].members # app.packages[i].members}
\* A call appends its class to one package: to the one of that name, which
\* keeps its path, or to a new last package with the path of the call.
AppendedToOne ==
    app_call'.n = app_call.n + 1 =>
        LET c == app_call'
            old == app.packages
            new == app'.packages
        IN  /\ \E i \in DOMAIN new : Touched = {i}
            /\ \A i \in Touched :
                  /\ new[i].name = c.package
                  /\ i \in DOMAIN old =>
                        /\ Len(new) = Len(old)
                        /\ new[i].members = Append(old[i].members, c.class)
                  /\ i \notin DOMAIN old =>
                        /\ Len(new) = Len(old) + 1 /\ i = Len(new)
                        /\ \A j \in DOMAIN old : old[j].name # c.package
                        /\ new[i].package_path = c.dir
                        /\ new[i].members = <<c.class>>
            /\ \A j \in DOMAIN old :
                  /\ new[j].name = old[j].name
                  /\ new[j].package_path = old[j].package_path

\* C28: after any calls of add_package_class on a fresh ApplicationDoc the
\* package names are pairwise distinct and the four counters are untouched,
\* and each call appended its class to exactly one package: the existing one
\* of that name, else a new one that keeps the path given at its creation.
C28_OnePackagePerName ==
    [](DistinctNames /\ CountersUntouched) /\ [][AppendedToOne]_vars

\* Three calls made two packages; one of them was found again, under another
\* path, and holds two classes.
C28_Witness ==
    /\ app_call.n = 3
    /\ Len(app.packages) = 2
    /\ \E i \in DOMAIN app.packages :
          /\ Len(app.packages[i].members) = 2
          /\ app.packages[i].name = app_call.package
          /\ app.packages[i].package_path # app_call.dir

=============================================================================
